---- MODULE Spec2Model ----
(***************************************************************************)
(* The ordered todo collection of src/src/models/todo.rs: the Todo record, *)
(* the TodoList (a map from id to Todo plus the next_id counter) and its   *)
(* mutation operations, in particular the order-shifting reorder.          *)
(***************************************************************************)
EXTENDS Integers, Sequences, FiniteSets, TLC

(* ---------------------------------------------------------------------- *)
(* Bounds of the model                                                     *)
(* ---------------------------------------------------------------------- *)

\* add is called at most MaxAdds times in one behaviour
MaxAdds == 3

\* the texts a caller passes to add
Texts == {"a"}

\* the ids a caller passes to remove, toggle and reorder: every id add can
\* have returned, and one id that add never returned
Ids == 1..(MaxAdds + 1)

(* ---------------------------------------------------------------------- *)
(* Todo                                                                    *)
(* ---------------------------------------------------------------------- *)

\* Option<T> as a sequence of at most one element
None == <<>>

\* Todo::new with the order taken from a wrong constant instead of the id
Todo_new_order_one(id, text) ==
    [id |-> id, text |-> text, completed |-> FALSE, due_date |-> None,
     tags |-> <<>>, order |-> 1]

Todo_new(id, text) ==
    [id |-> id, text |-> text, completed |-> FALSE, due_date |-> None,
     tags |-> <<>>, order |-> id]

\* Todo::toggle that sets the flag instead of flipping it
Todo_toggle_sets(todo) == [todo EXCEPT !.completed = TRUE]

\* Todo::toggle
Todo_toggle(todo) == [todo EXCEPT !.completed = ~todo.completed]

\* Option::Some
Some(x) == <<x>>

\* Todo::set_due_date that keeps the date when it is given None
Todo_set_due_date_some(todo, date) ==
    IF date = None THEN todo ELSE [todo EXCEPT !.due_date = date]

\* Todo::set_due_date
Todo_set_due_date(todo, date) == [todo EXCEPT !.due_date = date]

\* the elements of a vector
Contains(v, x) == \E i \in 1..Len(v) : v[i] = x

\* Todo::add_tag without the contains check
Todo_add_tag_push(todo, tag) == [todo EXCEPT !.tags = Append(@, tag)]

\* Todo::add_tag
Todo_add_tag(todo, tag) ==
    IF ~Contains(todo.tags, tag)
    THEN [todo EXCEPT !.tags = Append(@, tag)]
    ELSE todo

\* Todo::remove_tag
Todo_remove_tag(todo, tag) ==
    [todo EXCEPT !.tags = SelectSeq(@, LAMBDA t : t # tag)]

\* the values of FilterState
FilterState == {"All", "Active", "Completed"}

\* FilterState::matches with Active matching every todo
matches_active_all(filter, todo) ==
    CASE filter = "All" -> TRUE
      [] filter = "Active" -> TRUE
      [] filter = "Completed" -> todo.completed

\* FilterState::matches
FilterState_matches(filter, todo) ==
    CASE filter = "All" -> TRUE
      [] filter = "Active" -> ~todo.completed
      [] filter = "Completed" -> todo.completed

(* ---------------------------------------------------------------------- *)
(* TodoList: a value L is [todos |-> map from id to Todo, next_id |-> n]   *)
(* ---------------------------------------------------------------------- *)

\* TodoList::new that starts the ids at 0
TodoList_new_from_zero == [todos |-> << >>, next_id |-> 0]

\* TodoList::new
TodoList_new == [todos |-> << >>, next_id |-> 1]

\* HashMap::insert and HashMap::remove on a function
MapInsert(m, k, v) == [i \in (DOMAIN m) \cup {k} |-> IF i = k THEN v ELSE m[i]]
MapRemove(m, k) == [i \in (DOMAIN m) \ {k} |-> m[i]]

\* the id add returns
add_ret(L, text) == L.next_id

\* add without the increment of next_id
add_no_increment(L, text) ==
    [todos |-> MapInsert(L.todos, L.next_id, Todo_new(L.next_id, text)),
     next_id |-> L.next_id]

\* add: the list after the call; the id returned is L.next_id
add(L, text) ==
    [todos |-> MapInsert(L.todos, L.next_id, Todo_new(L.next_id, text)),
     next_id |-> L.next_id + 1]

\* remove: the list after the call; Some(todo) is returned iff id was a key
remove(L, id) == [L EXCEPT !.todos = MapRemove(L.todos, id)]

\* toggle_completion: the list after the call
toggle_completion(L, todo_id) ==
    IF todo_id \in DOMAIN L.todos
    THEN [L EXCEPT !.todos[todo_id] = Todo_toggle(@)]
    ELSE L

\* the value toggle_completion returns
toggle_completion_ret(L, todo_id) == todo_id \in DOMAIN L.todos

toggle(L, id) == toggle_completion(L, id)

\* update_text: the list after the call and the value returned
update_text(L, id, text) ==
    IF id \in DOMAIN L.todos
    THEN [L EXCEPT !.todos[id].text = text]
    ELSE L

update_text_ret(L, id) == id \in DOMAIN L.todos

\* validate_reorder_request without the check of the target id
validate_no_target_check(L, source_id, target_id) ==
    /\ source_id # target_id
    /\ source_id \in DOMAIN L.todos

validate_reorder_request(L, source_id, target_id) ==
    /\ source_id # target_id
    /\ source_id \in DOMAIN L.todos
    /\ target_id \in DOMAIN L.todos

\* get_todo_order that returns the id where the order is meant
get_todo_order_id(L, id) ==
    IF id \in DOMAIN L.todos THEN L.todos[id].id ELSE 0

get_todo_order(L, id) ==
    IF id \in DOMAIN L.todos THEN L.todos[id].order ELSE 0

\* reorder_todos_moving_down with the target excluded from the shifted range
moving_down_exclusive(L, source_order, target_order) ==
    [L EXCEPT !.todos =
        [i \in DOMAIN L.todos |->
            IF L.todos[i].order > source_order /\ L.todos[i].order < target_order
            THEN [L.todos[i] EXCEPT !.order = @ - 1]
            ELSE L.todos[i]]]

reorder_todos_moving_down(L, source_order, target_order) ==
    [L EXCEPT !.todos =
        [i \in DOMAIN L.todos |->
            IF L.todos[i].order > source_order /\ L.todos[i].order <= target_order
            THEN [L.todos[i] EXCEPT !.order = @ - 1]
            ELSE L.todos[i]]]

\* reorder_todos_moving_up with the target excluded from the shifted range
moving_up_exclusive(L, source_order, target_order) ==
    [L EXCEPT !.todos =
        [i \in DOMAIN L.todos |->
            IF L.todos[i].order > target_order /\ L.todos[i].order < source_order
            THEN [L.todos[i] EXCEPT !.order = @ + 1]
            ELSE L.todos[i]]]

reorder_todos_moving_up(L, source_order, target_order) ==
    [L EXCEPT !.todos =
        [i \in DOMAIN L.todos |->
            IF L.todos[i].order >= target_order /\ L.todos[i].order < source_order
            THEN [L.todos[i] EXCEPT !.order = @ + 1]
            ELSE L.todos[i]]]

\* update_source_todo_order that leaves the source where it was
update_source_keeps_order(L, source_id, target_order) == L

update_source_todo_order(L, source_id, target_order) ==
    IF source_id \in DOMAIN L.todos
    THEN [L EXCEPT !.todos[source_id].order = target_order]
    ELSE L

\* the value reorder returns
reorder_ret(L, source_id, target_id) ==
    validate_reorder_request(L, source_id, target_id)

\* reorder that exchanges the order values of source and target
reorder_swap(L, source_id, target_id) ==
    IF ~validate_reorder_request(L, source_id, target_id) THEN L
    ELSE LET source_order == get_todo_order(L, source_id)
             target_order == get_todo_order(L, target_id)
         IN  update_source_todo_order(
                 update_source_todo_order(L, target_id, source_order),
                 source_id, target_order)

\* reorder that always takes the moving-down branch
reorder_always_down(L, source_id, target_id) ==
    IF ~validate_reorder_request(L, source_id, target_id) THEN L
    ELSE LET source_order == get_todo_order(L, source_id)
             target_order == get_todo_order(L, target_id)
         IN  update_source_todo_order(
                 reorder_todos_moving_down(L, source_order, target_order),
                 source_id, target_order)

\* reorder: the list after the call
reorder(L, source_id, target_id) ==
    IF ~validate_reorder_request(L, source_id, target_id) THEN L
    ELSE LET source_order == get_todo_order(L, source_id)
             target_order == get_todo_order(L, target_id)
             shifted == IF source_order < target_order
                        THEN reorder_todos_moving_down(L, source_order, target_order)
                        ELSE reorder_todos_moving_up(L, source_order, target_order)
         IN  update_source_todo_order(shifted, source_id, target_order)

\* all: the vectors the call can return.  The values of the HashMap are
\* collected in an unspecified iteration order and sorted by order with a
\* stable sort, so todos with equal order can come out either way round.
RECURSIVE SortedByOrder(_, _)
SortedByOrder(m, S) ==
    IF S = {} THEN { <<>> }
    ELSE UNION { { <<m[i]>> \o rest : rest \in SortedByOrder(m, S \ {i}) } :
                 i \in { j \in S : \A k \in S : m[j].order <= m[k].order } }

\* the vectors an iteration over the values of the HashMap can collect: the
\* iteration order is unspecified, so every arrangement is possible
RECURSIVE AnyOrder(_, _)
AnyOrder(m, S) ==
    IF S = {} THEN { <<>> }
    ELSE UNION { { <<m[i]>> \o rest : rest \in AnyOrder(m, S \ {i}) } : i \in S }

\* all without the sort
all_unsorted(L) == AnyOrder(L.todos, DOMAIN L.todos)

all(L) == SortedByOrder(L.todos, DOMAIN L.todos)

\* filtered that forgets the filter
filtered_no_filter(L, filter) == AnyOrder(L.todos, DOMAIN L.todos)

\* filtered: the vectors the call can return; the matching values are
\* collected in the iteration order of the HashMap and are not sorted
filtered(L, filter) ==
    AnyOrder(L.todos, { i \in DOMAIN L.todos : FilterState_matches(filter, L.todos[i]) })

\* the ids of a vector of todos
IdsOf(v) == [i \in 1..Len(v) |-> v[i].id]

\* the id sequences all() can return
all_ids(L) == { IdsOf(v) : v \in all(L) }

\* completed_count
completed_count(L) ==
    Cardinality({ i \in DOMAIN L.todos : L.todos[i].completed })

\* clear_completed that removes the active todos instead
clear_removes_active(L) ==
    [L EXCEPT !.todos =
        [i \in { j \in DOMAIN L.todos : L.todos[j].completed } |-> L.todos[i]]]

\* clear_completed: the list after the call
clear_completed(L) ==
    [L EXCEPT !.todos =
        [i \in { j \in DOMAIN L.todos : ~L.todos[j].completed } |-> L.todos[i]]]

\* clear_completed returning the number of todos it looked at
clear_completed_ret_total(L) == Cardinality(DOMAIN L.todos)

\* the count clear_completed returns
clear_completed_ret(L) ==
    Cardinality({ i \in DOMAIN L.todos : L.todos[i].completed })

\* set_due_date: the list after the call
set_due_date(L, id, date) ==
    IF id \in DOMAIN L.todos
    THEN [L EXCEPT !.todos[id] = Todo_set_due_date(@, date)]
    ELSE L

\* set_due_date reporting success whatever the id
set_due_date_ret_true(L, id) == TRUE

\* the value set_due_date returns
set_due_date_ret(L, id) == id \in DOMAIN L.todos

\* add_tag: the list after the call and the value returned
add_tag(L, id, tag) ==
    IF id \in DOMAIN L.todos
    THEN [L EXCEPT !.todos[id] = Todo_add_tag(@, tag)]
    ELSE L

add_tag_ret(L, id) == id \in DOMAIN L.todos

\* remove_tag: the list after the call and the value returned
remove_tag(L, id, tag) ==
    IF id \in DOMAIN L.todos
    THEN [L EXCEPT !.todos[id] = Todo_remove_tag(@, tag)]
    ELSE L

remove_tag_ret(L, id) == id \in DOMAIN L.todos

(* ---------------------------------------------------------------------- *)
(* Storage (src/src/utils/storage.rs) and the serde_json document          *)
(* ---------------------------------------------------------------------- *)

\* the key the application stores its list under
TODO_STORAGE_KEY == "dioxus-todo-app"

\* a usize as the string of its decimal digits (the keys of a JSON object are
\* strings), and back
RECURSIVE DecStr(_)
DecStr(n) == IF n < 10 THEN <<n>> ELSE Append(DecStr(n \div 10), n % 10)

RECURSIVE ParseDec(_)
ParseDec(str) ==
    IF Len(str) = 0 THEN 0
    ELSE 10 * ParseDec(SubSeq(str, 1, Len(str) - 1)) + str[Len(str)]

\* a DateTime<Utc> as its RFC 3339 string; null for None
DateToJson(date) == [d \in 1..Len(date) |-> [rfc3339 |-> date[d]]]
DateFromJson(json) == [d \in 1..Len(json) |-> json[d].rfc3339]

\* Todo as a JSON object, and back
Todo_to_json(todo) ==
    [id |-> todo.id, text |-> todo.text, completed |-> todo.completed,
     due_date |-> DateToJson(todo.due_date), tags |-> todo.tags, order |-> todo.order]

Todo_from_json(json) ==
    [id |-> json.id, text |-> json.text, completed |-> json.completed,
     due_date |-> DateFromJson(json.due_date), tags |-> json.tags, order |-> json.order]

\* serde_json::to_string of a TodoList: the object of the todos keyed by the
\* decimal string of the id, and next_id
to_string(L) ==
    [valid |-> TRUE,
     todos |-> [k \in { DecStr(i) : i \in DOMAIN L.todos } |->
                    Todo_to_json(L.todos[ParseDec(k)])],
     next_id |-> L.next_id]

\* a stored string that is not the JSON of a TodoList
Garbage == [valid |-> FALSE, todos |-> <<>>, next_id |-> 0]

\* serde_json::from_str that lets next_id take its default
from_str_skips_next_id(doc) ==
    IF doc.valid
    THEN [ok |-> TRUE,
          value |-> [todos |-> [i \in { ParseDec(k) : k \in DOMAIN doc.todos } |->
                                    Todo_from_json(doc.todos[DecStr(i)])],
                     next_id |-> 1]]
    ELSE [ok |-> FALSE, value |-> TodoList_new]

\* serde_json::from_str::<TodoList>: ok with the list, or the parse error
from_str(doc) ==
    IF doc.valid
    THEN [ok |-> TRUE,
          value |-> [todos |-> [i \in { ParseDec(k) : k \in DOMAIN doc.todos } |->
                                    Todo_from_json(doc.todos[DecStr(i)])],
                     next_id |-> doc.next_id]]
    ELSE [ok |-> FALSE, value |-> TodoList_new]

\* what the platform does in one storage call: it works, the backend cannot
\* be reached (no window or localStorage, the database does not open), or the
\* backend is reached and the read or write fails
EnvOutcomes == {"ok", "unreachable", "io_fails"}

\* the builds: the browser, the native build with the desktop feature, and the
\* native build without it, whose provider cannot be created
Targets == {"wasm32", "desktop", "native"}

\* the result of a save / of a load
SaveResult(res, st) == [res |-> res, store |-> st]
LoadResult(res, value) == [res |-> res, value |-> value]

\* WebStorage::save
WebStorage_save(st, key, data, env) ==
    IF env = "unreachable" THEN SaveResult("AccessError", st)
    ELSE IF env = "io_fails" THEN SaveResult("SetError", st)
    ELSE SaveResult("Ok", MapInsert(st, key, to_string(data)))

\* WebStorage::load
WebStorage_load(st, key, env) ==
    IF env # "ok" THEN LoadResult("AccessError", TodoList_new)
    ELSE IF key \notin DOMAIN st THEN LoadResult("NotFound", TodoList_new)
    ELSE IF ~from_str(st[key]).ok THEN LoadResult("DeserializeError", TodoList_new)
    ELSE LoadResult("Ok", from_str(st[key]).value)

\* SqliteStorage::new followed by SqliteStorage::save
SqliteStorage_save(st, key, data, env) ==
    IF env # "ok" THEN SaveResult("DbError", st)
    ELSE SaveResult("Ok", MapInsert(st, key, to_string(data)))

\* SqliteStorage::new followed by SqliteStorage::load
SqliteStorage_load(st, key, env) ==
    IF env # "ok" THEN LoadResult("DbError", TodoList_new)
    ELSE IF key \notin DOMAIN st THEN LoadResult("NotFound", TodoList_new)
    ELSE IF ~from_str(st[key]).ok THEN LoadResult("DeserializeError", TodoList_new)
    ELSE LoadResult("Ok", from_str(st[key]).value)

\* the platform outcome a call meets on a target
EnvOn(target, env) == IF target = "native" THEN "unreachable" ELSE env

\* utils::save: the provider of the target, then its save
save(target, st, key, data, env) ==
    IF target = "wasm32"
    THEN WebStorage_save(st, key, data, env)
    ELSE SqliteStorage_save(st, key, data, EnvOn(target, env))

\* utils::load that takes a missing key for an empty list
load_missing_is_default(target, st, key, env) ==
    IF env = "ok" /\ key \notin DOMAIN st THEN LoadResult("Ok", TodoList_new)
    ELSE IF target = "wasm32"
    THEN WebStorage_load(st, key, env)
    ELSE SqliteStorage_load(st, key, EnvOn(target, env))

\* utils::load: the provider of the target, then its load
load(target, st, key, env) ==
    IF target = "wasm32"
    THEN WebStorage_load(st, key, env)
    ELSE SqliteStorage_load(st, key, EnvOn(target, env))

(* ---------------------------------------------------------------------- *)
(* The state machine: one TodoList instance and its callers                *)
(* ---------------------------------------------------------------------- *)

VARIABLES
    todos,      \* TodoList.todos
    next_id,    \* TodoList.next_id
    last,       \* the last call: its name, arguments, result and the list before it
    existed,    \* every id that was a key of todos before the last call
    calls,      \* the calls made since construction, while they follow a scenario
    view,       \* what the last call returned, when it was all() or filtered()
    store,      \* the storage backend: the document stored under each key
    target,     \* the build that runs
    pc,         \* "library": no application; "unmounted": before the first
                \* render's effects; "running": waiting for the next event
    io,         \* the storage calls of the last application step, their results,
                \* and what saved was before them
    failures,   \* the storage calls that have failed on a working build so far
    saved,      \* <<>>, or the list the last save under TODO_STORAGE_KEY that
                \* returned Ok was given, with every id that list ever had
    ui          \* the signals of the components: TodoForm, TodoItem, TodoApp and
                \* the TodoList component

vars ==
    <<todos, next_id, last, existed, calls, view, store, target, pc, io, failures,
      saved, ui>>

appvars == <<store, target, pc, io, failures, saved>>

\* view after a call that returns no vector
NoView == [filter |-> "none", result |-> <<>>]

\* the TodoList value held in the variables
Self == [todos |-> todos, next_id |-> next_id]

\* a call record; a and b are the id arguments (0 when the call has none),
\* ok is the boolean result (for remove: whether Some was returned), n is the
\* numeric result (the id add returns, the count clear_completed returns)
Call(op, a, b) == [op |-> op, a |-> a, b |-> b]

\* x is the argument of a call that is not an id (a text, a tag, a due date)
NoArg == ""

ResultX(op, a, b, ok, n, pre, x) ==
    [op |-> op, a |-> a, b |-> b, ok |-> ok, n |-> n, pre |-> pre, x |-> x]

Result(op, a, b, ok, n, pre) == ResultX(op, a, b, ok, n, pre, NoArg)

\* the scenario of two toggles of the same todo, of tests::test_reorder and of
\* the end-to-end trace
ScenarioToggleTwice ==
    << Call("add", 0, 0), Call("toggle", 1, 0), Call("toggle", 1, 0) >>

ScenarioReorder ==
    << Call("add", 0, 0), Call("add", 0, 0), Call("add", 0, 0),
       Call("reorder", 1, 3), Call("reorder", 3, 2) >>

ScenarioEndToEnd ==
    << Call("add", 0, 0), Call("add", 0, 0), Call("add", 0, 0),
       Call("reorder", 1, 3), Call("toggle", 2, 0), Call("clear_completed", 0, 0) >>

Scenarios == {ScenarioToggleTwice, ScenarioReorder, ScenarioEndToEnd}

IsPrefix(p, s) == Len(p) <= Len(s) /\ \A i \in 1..Len(p) : p[i] = s[i]

\* calls, once the behaviour has left every scenario
Off == << Call("off", 0, 0) >>

Record(c) ==
    IF calls # Off /\ \E s \in Scenarios : IsPrefix(Append(calls, c), s)
    THEN Append(calls, c)
    ELSE Off

\* ui when no component is rendered
NoUi == [component |-> "none"]

\* install the list L the call produced and record the call
StepU(L, op, a, b, ok, n, x) ==
    /\ todos' = L.todos
    /\ next_id' = L.next_id
    /\ last' = ResultX(op, a, b, ok, n, Self, x)
    /\ existed' = existed \cup DOMAIN todos
    /\ calls' = Record(Call(op, a, b))
    /\ view' = NoView
    /\ UNCHANGED appvars

\* a call made by a caller that has no component state
StepX(L, op, a, b, ok, n, x) == StepU(L, op, a, b, ok, n, x) /\ UNCHANGED ui

Step(L, op, a, b, ok, n) == StepX(L, op, a, b, ok, n, NoArg)

\* a query: the list is left as it is and the vector v is returned
Query(op, filter, v) ==
    /\ UNCHANGED <<todos, next_id>>
    /\ last' = Result(op, 0, 0, TRUE, 0, Self)
    /\ existed' = existed \cup DOMAIN todos
    /\ calls' = Record(Call(op, 0, 0))
    /\ view' = [filter |-> filter, result |-> v]
    /\ UNCHANGED <<appvars, ui>>

\* io when the last step made no storage call
NoIo ==
    [load |-> "none", present |-> FALSE, env |-> "ok", loaded |-> TodoList_new,
     before |-> <<>>, save |-> "none"]

\* a fresh TodoList and nothing recorded
InitList ==
    /\ todos = TodoList_new.todos
    /\ next_id = TodoList_new.next_id
    /\ last = Result("new", 0, 0, TRUE, 0, TodoList_new)
    /\ existed = {}
    /\ calls = <<>>
    /\ view = NoView

Init ==
    /\ InitList
    /\ store = <<>>
    /\ target = "desktop"
    /\ pc = "library"
    /\ io = NoIo
    /\ failures = 0
    /\ saved = <<>>
    /\ ui = NoUi

\* the calls of add, remove and toggle, with at most max adds and ids from ids
AddUpTo(max) ==
    /\ next_id <= max
    /\ \E text \in Texts : Step(add(Self, text), "add", 0, 0, TRUE, next_id)

RemoveIn(ids) ==
    \E id \in ids : Step(remove(Self, id), "remove", id, 0, id \in DOMAIN todos, 0)

ToggleIn(ids) ==
    \E id \in ids :
        Step(toggle(Self, id), "toggle", id, 0, toggle_completion_ret(Self, id), 0)

Add == AddUpTo(MaxAdds)

Remove == RemoveIn(Ids)

Toggle == ToggleIn(Ids)

ClearCompleted ==
    Step(clear_completed(Self), "clear_completed", 0, 0, TRUE, clear_completed_ret(Self))

Reorder ==
    \E source_id \in Ids, target_id \in Ids :
        Step(reorder(Self, source_id, target_id), "reorder", source_id, target_id,
             reorder_ret(Self, source_id, target_id), 0)

All == \E v \in all(Self) : Query("all", "none", v)

Filtered == \E filter \in FilterState : \E v \in filtered(Self, filter) : Query("filtered", filter, v)

Next == Add \/ Remove \/ Toggle \/ ClearCompleted \/ Reorder \/ All \/ Filtered

Spec == Init /\ [][Next]_vars

(* ---------------------------------------------------------------------- *)
(* The calls that change one field of one todo                             *)
(* ---------------------------------------------------------------------- *)

\* add is called at most MaxFieldAdds times in a behaviour of SpecFields
MaxFieldAdds == 1

\* the ids passed: those add can have returned and one it never returned
FieldIds == 1..(MaxFieldAdds + 1)

\* the texts passed to update_text, the tags, and the due dates
UpdateTexts == {"a", "b"}
Tags == {"x", "y"}
DueDates == {None, Some(1), Some(2)}

FieldAdd == AddUpTo(MaxFieldAdds)

FieldRemove == RemoveIn(FieldIds)

FieldToggle == ToggleIn(FieldIds)

UpdateText ==
    \E id \in FieldIds, text \in UpdateTexts :
        StepX(update_text(Self, id, text), "update_text", id, 0,
              update_text_ret(Self, id), 0, text)

SetDueDate ==
    \E id \in FieldIds, date \in DueDates :
        StepX(set_due_date(Self, id, date), "set_due_date", id, 0,
              set_due_date_ret(Self, id), 0, date)

AddTag ==
    \E id \in FieldIds, tag \in Tags :
        StepX(add_tag(Self, id, tag), "add_tag", id, 0, add_tag_ret(Self, id), 0, tag)

RemoveTag ==
    \E id \in FieldIds, tag \in Tags :
        StepX(remove_tag(Self, id, tag), "remove_tag", id, 0,
              remove_tag_ret(Self, id), 0, tag)

NextFields ==
    \/ FieldAdd \/ FieldRemove \/ FieldToggle
    \/ UpdateText \/ SetDueDate \/ AddTag \/ RemoveTag

SpecFields == Init /\ [][NextFields]_vars

(* ---------------------------------------------------------------------- *)
(* The application: use_todo_state (src/src/components/todo_state.rs)      *)
(* ---------------------------------------------------------------------- *)

\* add_todo is called at most MaxAppAdds times while next_id stays in range
MaxAppAdds == 1

\* at most MaxFailures storage calls fail on a build whose storage works
MaxFailures == 1

\* the ids the UI passes to the callbacks
AppIds == 1..MaxAppAdds

\* what a platform outcome takes from the failure budget
Cost(env) == IF env = "ok" THEN 0 ELSE 1

\* the application starts with nothing stored under its key, or with a
\* string there that is not a TodoList
InitApp ==
    /\ InitList
    /\ store \in { <<>>, MapInsert(<<>>, TODO_STORAGE_KEY, Garbage) }
    /\ target \in Targets
    /\ pc = "unmounted"
    /\ io = NoIo
    /\ failures = 0
    /\ saved = <<>>
    /\ ui = NoUi

\* the save effect under a key of its own
save_effect_other_key(tgt, st, L, env) == save(tgt, st, "todos", L, env)

\* the save effect: utils::save(TODO_STORAGE_KEY, &todo_list.read())
save_effect(tgt, st, L, env) == save(tgt, st, TODO_STORAGE_KEY, L, env)

\* saved after the save effect was given L and returned res
Saved(res, L, ids) ==
    IF res = "Ok" THEN << [list |-> L, ids |-> ids \cup DOMAIN L.todos] >> ELSE saved

\* a load effect that unwraps the result of the load
load_effect_unwrap(L, r) ==
    [list |-> r.value, pc |-> IF r.res = "Ok" THEN "running" ELSE "aborted"]

\* the load effect: if let Ok(loaded_todos) = utils::load(..) { todo_list.set(..) };
\* the list in the signal after it, and whether the application goes on
load_effect(L, r) ==
    [list |-> IF r.res = "Ok" THEN r.value ELSE L, pc |-> "running"]

\* the first render and its effects: the load effect installs the stored
\* list when the load is Ok, then the save effect stores what is in memory
Mount ==
    /\ pc = "unmounted"
    /\ \E e1 \in EnvOutcomes, e2 \in EnvOutcomes :
        LET r == load(target, store, TODO_STORAGE_KEY, e1)
            L == load_effect(Self, r).list
            w == save_effect(target, store, L, e2)
        IN  /\ failures + Cost(e1) + Cost(e2) <= MaxFailures
            /\ failures' = failures + Cost(e1) + Cost(e2)
            /\ todos' = L.todos
            /\ next_id' = L.next_id
            /\ store' = w.store
            /\ io' = [load |-> r.res, present |-> TODO_STORAGE_KEY \in DOMAIN store,
                      env |-> EnvOn(target, e1), loaded |-> r.value,
                      before |-> saved, save |-> w.res]
            /\ pc' = load_effect(Self, r).pc
            /\ existed' = IF r.res = "Ok" /\ saved # <<>> THEN saved[1].ids ELSE existed
            /\ saved' = Saved(w.res, L, existed')
    /\ UNCHANGED <<last, calls, view, target, ui>>

\* an operation callback: the list L it leaves in the signal, then the save
\* effect, which runs again because the signal was written
Callback(L) ==
    /\ pc = "running"
    /\ todos' = L.todos
    /\ next_id' = L.next_id
    /\ existed' = existed \cup DOMAIN todos
    /\ \E e \in EnvOutcomes :
        LET w == save_effect(target, store, L, e)
        IN  /\ failures + Cost(e) <= MaxFailures
            /\ failures' = failures + Cost(e)
            /\ store' = w.store
            /\ io' = [NoIo EXCEPT !.save = w.res]
            /\ saved' = Saved(w.res, L, existed')
    /\ UNCHANGED <<last, calls, view, target, pc, ui>>

add_todo == next_id <= MaxAppAdds /\ \E text \in Texts : Callback(add(Self, text))

toggle_todo == \E id \in AppIds : Callback(toggle(Self, id))

delete_todo == \E id \in AppIds : Callback(remove(Self, id))

update_todo == \E id \in AppIds : Callback(update_text(Self, id, "b"))

set_due_date_cb == \E id \in AppIds : Callback(set_due_date(Self, id, Some(1)))

add_tag_to_todo == \E id \in AppIds : Callback(add_tag(Self, id, "x"))

remove_tag_from_todo == \E id \in AppIds : Callback(remove_tag(Self, id, "x"))

clear_completed_cb == Callback(clear_completed(Self))

reorder_todo ==
    \E source_id \in AppIds, target_id \in AppIds :
        Callback(reorder(Self, source_id, target_id))

\* the application is closed and started again: the signal is created anew
\* with TodoList::default, the storage keeps what it has
Restart ==
    /\ pc = "running"
    /\ pc' = "unmounted"
    /\ todos' = TodoList_new.todos
    /\ next_id' = TodoList_new.next_id
    /\ io' = NoIo
    /\ existed' = {}
    /\ UNCHANGED <<last, calls, view, store, target, failures, saved, ui>>

NextApp ==
    \/ Mount \/ Restart
    \/ add_todo \/ toggle_todo \/ delete_todo \/ update_todo \/ set_due_date_cb
    \/ add_tag_to_todo \/ remove_tag_from_todo \/ clear_completed_cb \/ reorder_todo

SpecApp == InitApp /\ [][NextApp]_vars

(* ---------------------------------------------------------------------- *)
(* The forms: TodoForm (src/src/components/todo_form.rs) and the edit form *)
(* of TodoItem (src/src/components/todo_item.rs). A String is the sequence *)
(* of its characters.                                                      *)
(* ---------------------------------------------------------------------- *)

\* add_todo is called at most MaxFormAdds times while next_id stays in range
MaxFormAdds == 1

\* the characters str::trim removes
WhiteSpace == {" "}

\* what the user can have typed into an input
RawTexts ==
    { <<>>, <<" ">>, <<"a">>, <<" ", "a", " ">>, <<"b">>, <<"b", " ">> }

RECURSIVE trim_start(_)
trim_start(str) ==
    IF str # <<>> /\ Head(str) \in WhiteSpace THEN trim_start(Tail(str)) ELSE str

RECURSIVE trim_end(_)
trim_end(str) ==
    IF str # <<>> /\ str[Len(str)] \in WhiteSpace
    THEN trim_end(SubSeq(str, 1, Len(str) - 1))
    ELSE str

\* str::trim
trim(str) == trim_end(trim_start(str))

\* TodoForm::handle_submit: whether on_add is called, with which text, and
\* input_text after it
TodoForm_handle_submit(input_text) ==
    LET text == trim(input_text)
    IN  [call |-> text # <<>>,
         text |-> text,
         input_text |-> IF text # <<>> THEN <<>> ELSE input_text]

\* the signals of a TodoItem when it is first rendered
TodoItem_new(todo) == [editing |-> FALSE, edit_text |-> todo.text]

\* TodoItem::toggle_editing
TodoItem_toggle_editing(item, initial_text) ==
    [editing |-> ~item.editing,
     edit_text |-> IF ~item.editing THEN initial_text ELSE item.edit_text]

\* an edit submit that lets the empty text through
handle_edit_allows_empty(item, initial_text) ==
    LET current_edit_text == trim(item.edit_text)
    IN  IF current_edit_text # initial_text
        THEN [call |-> TRUE, text |-> current_edit_text,
              item |-> [item EXCEPT !.editing = FALSE]]
        ELSE [call |-> FALSE, text |-> current_edit_text,
              item |-> [editing |-> FALSE, edit_text |-> initial_text]]

\* TodoItem::handle_edit: whether on_update is called, with which text, and
\* the signals after it
TodoItem_handle_edit(item, initial_text) ==
    LET current_edit_text == trim(item.edit_text)
    IN  IF current_edit_text # <<>> /\ current_edit_text # initial_text
        THEN [call |-> TRUE, text |-> current_edit_text,
              item |-> [item EXCEPT !.editing = FALSE]]
        ELSE [call |-> FALSE, text |-> current_edit_text,
              item |-> [editing |-> FALSE, edit_text |-> initial_text]]

\* the onblur handler of the edit input
TodoItem_onblur(item, initial_text) ==
    LET current_edit_text == trim(item.edit_text)
    IN  IF current_edit_text = <<>> \/ current_edit_text = initial_text
        THEN [editing |-> FALSE, edit_text |-> initial_text]
        ELSE [item EXCEPT !.editing = FALSE]

\* TodoItem::handle_key_press with the Escape key
TodoItem_escape(item, initial_text) ==
    IF item.editing THEN [editing |-> FALSE, edit_text |-> initial_text] ELSE item

\* the form is empty and no todo is displayed
InitForm ==
    /\ InitList
    /\ store = <<>>
    /\ target = "desktop"
    /\ pc = "library"
    /\ io = NoIo
    /\ failures = 0
    /\ saved = <<>>
    /\ ui = [component |-> "forms", input_text |-> <<>>, items |-> <<>>]

\* an event that changes signals only
SignalsOnly(u) ==
    /\ ui' = u
    /\ last' = Result("none", 0, 0, TRUE, 0, Self)
    /\ UNCHANGED <<todos, next_id, existed, calls, view, appvars>>

\* oninput of the TodoForm input
FormInput == \E raw \in RawTexts : SignalsOnly([ui EXCEPT !.input_text = raw])

\* onsubmit of the TodoForm: handle_submit, and add_todo when it calls on_add
FormSubmit ==
    LET r == TodoForm_handle_submit(ui.input_text)
    IN  IF r.call
        THEN /\ next_id <= MaxFormAdds
             /\ StepU(add(Self, r.text), "add", 0, 0, TRUE, next_id, r.text)
             /\ ui' = [ui EXCEPT !.input_text = r.input_text,
                                 !.items = MapInsert(@, next_id,
                                               TodoItem_new(Todo_new(next_id, r.text)))]
        ELSE SignalsOnly([ui EXCEPT !.input_text = r.input_text])

\* double click on the text of a todo
ToggleEditing ==
    \E id \in DOMAIN todos :
        SignalsOnly([ui EXCEPT !.items[id] =
                         TodoItem_toggle_editing(@, todos[id].text)])

\* oninput of the edit input, which is rendered while editing
EditInput ==
    \E id \in DOMAIN todos, raw \in RawTexts :
        /\ ui.items[id].editing
        /\ SignalsOnly([ui EXCEPT !.items[id].edit_text = raw])

\* onsubmit of the edit form: handle_edit, and update_todo when it calls on_update
EditSubmit ==
    \E id \in DOMAIN todos :
        /\ ui.items[id].editing
        /\ LET r == TodoItem_handle_edit(ui.items[id], todos[id].text)
           IN  IF r.call
               THEN /\ StepU(update_text(Self, id, r.text), "update_text", id, 0,
                             update_text_ret(Self, id), 0, r.text)
                    /\ ui' = [ui EXCEPT !.items[id] = r.item]
               ELSE SignalsOnly([ui EXCEPT !.items[id] = r.item])

\* the edit input loses the focus
EditBlur ==
    \E id \in DOMAIN todos :
        /\ ui.items[id].editing
        /\ SignalsOnly([ui EXCEPT !.items[id] = TodoItem_onblur(@, todos[id].text)])

\* the Escape key on a todo
EditEscape ==
    \E id \in DOMAIN todos :
        SignalsOnly([ui EXCEPT !.items[id] = TodoItem_escape(@, todos[id].text)])

\* the delete button of a todo: delete_todo, and the TodoItem is unmounted
FormDelete ==
    \E id \in DOMAIN todos :
        /\ StepU(remove(Self, id), "remove", id, 0, TRUE, 0, NoArg)
        /\ ui' = [ui EXCEPT !.items = MapRemove(@, id)]

NextForm ==
    \/ FormInput \/ FormSubmit \/ ToggleEditing \/ EditInput \/ EditSubmit
    \/ EditBlur \/ EditEscape \/ FormDelete

SpecForm == InitForm /\ [][NextForm]_vars

(* ---------------------------------------------------------------------- *)
(* The displayed list: TodoApp (src/src/components/todo_app.rs) and the    *)
(* TodoList component (src/src/components/todo_list.rs)                    *)
(* ---------------------------------------------------------------------- *)

\* the lists that are displayed have at most MaxViewTodos todos
MaxViewTodos == 2

\* the texts, tag vectors, selected tags and search texts that are tried
ViewTexts == { <<"A", "b">>, <<"x">> }

ViewTagVecs == { <<>>, << <<"B">>, <<"x", "a">> >> }

SelectedTags == { None, Some(<<"B">>), Some(<<"b">>) }

SearchTexts == { <<>>, <<"a", "B">>, <<"b">>, <<"x", "a">> }

\* the lists with n todos: add, toggle, add_tag and reorder reach each of them
ListsOfSize(n) ==
    { [todos |-> [i \in 1..n |->
                     [id |-> i, text |-> tx[i], completed |-> c[i], due_date |-> None,
                      tags |-> tg[i], order |-> o[i]]],
       next_id |-> n + 1] :
      tx \in [1..n -> ViewTexts], c \in [1..n -> BOOLEAN],
      tg \in [1..n -> ViewTagVecs], o \in Permutations(1..n) }

ViewLists == UNION { ListsOfSize(n) : n \in 0..MaxViewTodos }

\* char::to_lowercase on the characters that are tried
to_lowercase_char(ch) ==
    CASE ch = "A" -> "a"
      [] ch = "B" -> "b"
      [] ch = "X" -> "x"
      [] OTHER -> ch

\* str::to_lowercase
to_lowercase(str) == [i \in 1..Len(str) |-> to_lowercase_char(str[i])]

\* str::contains with a string pattern
str_contains(str, pat) ==
    \E i \in 0..(Len(str) - Len(pat)) : SubSeq(str, i + 1, i + Len(pat)) = pat

\* a search that compares the search text as it was typed
search_match_as_typed(search_text, todo) ==
    IF search_text = <<>> THEN TRUE
    ELSE LET todo_text == to_lowercase(todo.text)
             text_match == str_contains(todo_text, search_text)
             tags_match == \E i \in 1..Len(todo.tags) :
                               str_contains(to_lowercase(todo.tags[i]), search_text)
         IN  text_match \/ tags_match

\* search_match of the filter closure
search_match(search_text, todo) ==
    IF search_text = <<>> THEN TRUE
    ELSE LET search_term == to_lowercase(search_text)
             todo_text == to_lowercase(todo.text)
             text_match == str_contains(todo_text, search_term)
             tags_match == \E i \in 1..Len(todo.tags) :
                               str_contains(to_lowercase(todo.tags[i]), search_term)
         IN  text_match \/ tags_match

\* tag_match of the filter closure
tag_match(selected_tag, todo) ==
    IF selected_tag = None THEN TRUE ELSE Contains(todo.tags, selected_tag[1])

\* filtered_todos that shows a todo as soon as one of the predicates matches
filtered_todos_any(props_todos, filter, selected_tag, search_text) ==
    SelectSeq(props_todos,
              LAMBDA todo : \/ FilterState_matches(filter, todo)
                            \/ tag_match(selected_tag, todo)
                            \/ search_match(search_text, todo))

\* filtered_todos of the TodoList component
filtered_todos(props_todos, filter, selected_tag, search_text) ==
    SelectSeq(props_todos,
              LAMBDA todo : /\ FilterState_matches(filter, todo)
                            /\ tag_match(selected_tag, todo)
                            /\ search_match(search_text, todo))

\* the renders of TodoApp over the list L with the signals u: todos is what
\* all() returns, and the TodoList component displays filtered_todos of it
Renders(L, u) ==
    { [filter |-> u.filter,
       result |-> filtered_todos(v, u.filter, u.selected_tag, u.search_text)] :
      v \in all(L) }

\* the signals of TodoApp at the first render
AppSignals == [component |-> "app", filter |-> "All", selected_tag |-> None,
               search_text |-> <<>>]

InitView ==
    /\ \E L \in ViewLists : todos = L.todos /\ next_id = L.next_id
    /\ last = Result("new", 0, 0, TRUE, 0, Self)
    /\ existed = {}
    /\ calls = <<>>
    /\ store = <<>>
    /\ target = "desktop"
    /\ pc = "library"
    /\ io = NoIo
    /\ failures = 0
    /\ saved = <<>>
    /\ ui = AppSignals
    /\ view \in Renders(Self, ui)

\* an event handler leaves the list L and the signals u, and TodoApp renders;
\* op is "render" when the handler only writes signals of TodoApp
Event(op, L, u) ==
    /\ todos' = L.todos
    /\ next_id' = L.next_id
    /\ ui' = u
    /\ view' \in Renders(L, u)
    /\ last' = Result(op, 0, 0, TRUE, 0, Self)
    /\ UNCHANGED <<existed, calls, appvars>>

\* change_filter, from a button of the FilterBar
ChangeFilter ==
    \E new_filter \in FilterState :
        Event("render", Self, [ui EXCEPT !.filter = new_filter])

\* select_tag, from a button of the TagsFilter
SelectTag ==
    \E tag \in SelectedTags : Event("render", Self, [ui EXCEPT !.selected_tag = tag])

\* on_search, from the input of the SearchBox
OnSearch ==
    \E text \in SearchTexts : Event("render", Self, [ui EXCEPT !.search_text = text])

\* the checkbox of a displayed todo: toggle_todo
ViewToggle ==
    \E i \in 1..Len(view.result) :
        Event("toggle", toggle(Self, view.result[i].id), ui)

NextView == ChangeFilter \/ SelectTag \/ OnSearch \/ ViewToggle

SpecView == InitView /\ [][NextView]_vars

(* ---------------------------------------------------------------------- *)
(* Drag and drop in the TodoList component                                  *)
(* (src/src/components/todo_list.rs)                                        *)
(* ---------------------------------------------------------------------- *)

\* the dragged lists are made by at most MaxDragTodos adds
MaxDragTodos == 2

RECURSIVE AfterAdds(_)
\* the list after n calls of add_todo
AfterAdds(n) == IF n = 0 THEN TodoList_new ELSE add(AfterAdds(n - 1), "a")

\* drag_item and drag_over_item at the first render, with the history of the
\* events: since_dragend is the id of the last dragstart and of the last
\* dragenter delivered since the last dragend, before is since_dragend before
\* the last event
NoDrag == [dragstart |-> None, dragenter |-> None]

DragSignals ==
    [component |-> "list", drag_item |-> None, drag_over_item |-> None,
     since_dragend |-> NoDrag, before |-> NoDrag]

ondragstart(u, todo_id) == [u EXCEPT !.drag_item = Some(todo_id)]

ondragenter(u, todo_id) == [u EXCEPT !.drag_over_item = Some(todo_id)]

\* ondragend without the two set(None)
ondragend_keeps_records(L, u) ==
    LET called == /\ u.drag_item # None
                  /\ u.drag_over_item # None
                  /\ u.drag_item[1] # u.drag_over_item[1]
    IN  [called |-> called,
         source_id |-> IF called THEN u.drag_item[1] ELSE 0,
         target_id |-> IF called THEN u.drag_over_item[1] ELSE 0,
         list |-> IF called
                  THEN reorder(L, u.drag_item[1], u.drag_over_item[1])
                  ELSE L,
         signals |-> u]

\* ondragend on the list L: on_reorder is reorder_todo, which calls
\* list.reorder(source_id, target_id)
ondragend(L, u) ==
    LET called == /\ u.drag_item # None
                  /\ u.drag_over_item # None
                  /\ u.drag_item[1] # u.drag_over_item[1]
    IN  [called |-> called,
         source_id |-> IF called THEN u.drag_item[1] ELSE 0,
         target_id |-> IF called THEN u.drag_over_item[1] ELSE 0,
         list |-> IF called
                  THEN reorder(L, u.drag_item[1], u.drag_over_item[1])
                  ELSE L,
         signals |-> [u EXCEPT !.drag_item = None, !.drag_over_item = None]]

InitDrag ==
    /\ \E n \in 0..MaxDragTodos :
          todos = AfterAdds(n).todos /\ next_id = AfterAdds(n).next_id
    /\ last = Result("new", 0, 0, TRUE, 0, TodoList_new)
    /\ existed = {}
    /\ calls = <<>>
    /\ view = NoView
    /\ store = <<>>
    /\ target = "desktop"
    /\ pc = "library"
    /\ io = NoIo
    /\ failures = 0
    /\ saved = <<>>
    /\ ui = DragSignals

\* an event of the list: the handler leaves the list L and the signals u, h is
\* the history after the event
DragEvent(op, a, b, ok, L, u, h) ==
    /\ todos' = L.todos
    /\ next_id' = L.next_id
    /\ ui' = [u EXCEPT !.since_dragend = h, !.before = ui.since_dragend]
    /\ last' = Result(op, a, b, ok, 0, Self)
    /\ existed' = existed \cup DOMAIN todos
    /\ UNCHANGED <<calls, view, appvars>>

\* the li of a rendered todo receives dragstart
DragStart ==
    \E todo_id \in DOMAIN todos :
        DragEvent("dragstart", todo_id, 0, TRUE, Self, ondragstart(ui, todo_id),
                  [ui.since_dragend EXCEPT !.dragstart = Some(todo_id)])

\* the li of a rendered todo receives dragenter
DragEnter ==
    \E todo_id \in DOMAIN todos :
        DragEvent("dragenter", todo_id, 0, TRUE, Self, ondragenter(ui, todo_id),
                  [ui.since_dragend EXCEPT !.dragenter = Some(todo_id)])

\* a li receives dragend
DragEnd ==
    LET r == ondragend(Self, ui)
    IN  DragEvent("dragend", r.source_id, r.target_id, r.called, r.list,
                  r.signals, NoDrag)

\* the delete button of a rendered todo: on_delete is delete_todo
DragDelete ==
    \E todo_id \in DOMAIN todos :
        DragEvent("delete", todo_id, 0, TRUE, remove(Self, todo_id), ui,
                  ui.since_dragend)

NextDrag == DragStart \/ DragEnter \/ DragEnd \/ DragDelete

SpecDrag == InitDrag /\ [][NextDrag]_vars

(* ---------------------------------------------------------------------- *)
(* The keyboard shortcuts (src/src/components/keyboard_shortcuts_handler.rs *)
(* and src/src/components/theme_manager.rs)                                *)
(* ---------------------------------------------------------------------- *)

THEME_STORAGE_KEY == "dioxus-todo-app-theme"

\* the keys that are pressed
KeyCodes == {"KeyA", "KeyC", "KeyV", "KeyD", "KeyX", "Escape"}

\* a key-down: the key, whether Ctrl is held, and whether Shift or Caps Lock
\* makes the key produce its upper-case character
KeyEvents == [code : KeyCodes, ctrl : BOOLEAN, upper : BOOLEAN]

NoKey == [code |-> "none", ctrl |-> FALSE, upper |-> FALSE]

\* evt.key().to_string(): the character the key produces, or the name of a
\* key that produces none
key_to_string(evt) ==
    CASE evt.code = "KeyA" -> IF evt.upper THEN "A" ELSE "a"
      [] evt.code = "KeyC" -> IF evt.upper THEN "C" ELSE "c"
      [] evt.code = "KeyV" -> IF evt.upper THEN "V" ELSE "v"
      [] evt.code = "KeyD" -> IF evt.upper THEN "D" ELSE "d"
      [] evt.code = "KeyX" -> IF evt.upper THEN "X" ELSE "x"
      [] OTHER -> evt.code

\* the closure use_keyboard_shortcuts returns: the filter and the theme after
\* the key-down evt
use_keyboard_shortcuts(evt, filter, is_dark_mode) ==
    IF evt.ctrl
    THEN LET key == key_to_string(evt)
         IN  CASE key = "a" -> [filter |-> "All", is_dark_mode |-> is_dark_mode]
               [] key = "c" -> [filter |-> "Completed", is_dark_mode |-> is_dark_mode]
               [] key = "v" -> [filter |-> "Active", is_dark_mode |-> is_dark_mode]
               [] key = "d" -> [filter |-> filter, is_dark_mode |-> ~is_dark_mode]
               [] OTHER -> [filter |-> filter, is_dark_mode |-> is_dark_mode]
    ELSE [filter |-> filter, is_dark_mode |-> is_dark_mode]

\* the JSON document of the theme string
ThemeDoc(is_dark_mode) ==
    [valid |-> FALSE, todos |-> <<>>, next_id |-> 0,
     string |-> IF is_dark_mode THEN "dark" ELSE "light"]

\* the effect of use_theme_manager: the theme is saved under THEME_STORAGE_KEY
theme_effect(st, is_dark_mode) == MapInsert(st, THEME_STORAGE_KEY, ThemeDoc(is_dark_mode))

\* TodoApp is rendered over a list of at most one todo; the theme comes from
\* the storage or from the preference of the system
InitKeys ==
    /\ \E L \in ListsOfSize(0) \cup ListsOfSize(1) :
           todos = L.todos /\ next_id = L.next_id
    /\ last = Result("new", 0, 0, TRUE, 0, Self)
    /\ existed = {}
    /\ calls = <<>>
    /\ target = "desktop"
    /\ pc = "library"
    /\ io = NoIo
    /\ failures = 0
    /\ saved = <<>>
    /\ \E dark \in BOOLEAN :
        /\ ui = [component |-> "app", filter |-> "All", selected_tag |-> None,
                 search_text |-> <<>>, is_dark_mode |-> dark, key |-> NoKey,
                 before |-> [filter |-> "All", is_dark_mode |-> dark]]
        /\ store = theme_effect(<<>>, dark)
    /\ view \in Renders(Self, ui)

\* onkeydown of TodoApp: handle_key_down, the theme effect and the render
KeyDown ==
    \E evt \in KeyEvents :
        LET r == use_keyboard_shortcuts(evt, ui.filter, ui.is_dark_mode)
            u == [ui EXCEPT !.filter = r.filter, !.is_dark_mode = r.is_dark_mode,
                            !.key = evt,
                            !.before = [filter |-> ui.filter,
                                        is_dark_mode |-> ui.is_dark_mode]]
        IN  /\ ui' = u
            /\ view' \in Renders(Self, u)
            /\ store' = theme_effect(store, r.is_dark_mode)
            /\ last' = Result("key_down", 0, 0, TRUE, 0, Self)
            /\ UNCHANGED <<todos, next_id, existed, calls, target, pc, io, failures,
                           saved>>

NextKeys == KeyDown

SpecKeys == InitKeys /\ [][NextKeys]_vars

(* ---------------------------------------------------------------------- *)
(* The width of usize: the arithmetic of add and reorder                   *)
(* (src/src/models/todo.rs)                                                *)
(* ---------------------------------------------------------------------- *)

\* usize has UsizeBits bits: the targets have 32 or 64, the model the
\* smallest width Rust gives usize; the arithmetic is the same at every width
UsizeBits == 16

USIZE_MAX == 2^UsizeBits - 1

\* the lists a stored snapshot restores whose next_id leaves room for one more
\* add: each is what USIZE_MAX - 2 adds and some removes leave
TopLists ==
    { [todos |-> [i \in S |-> Todo_new(i, "a")], next_id |-> USIZE_MAX - 1] :
      S \in SUBSET {USIZE_MAX - 3, USIZE_MAX - 2} }

\* every number of L is a value of usize
InRange(L) ==
    /\ L.next_id \in 0..USIZE_MAX
    /\ \A i \in DOMAIN L.todos : L.todos[i].order \in 0..USIZE_MAX

\* L with each number reduced modulo 2^UsizeBits, as arithmetic without
\* overflow checks leaves it
Wrapped(L) ==
    [todos |-> [i \in DOMAIN L.todos |->
                   [L.todos[i] EXCEPT !.order = @ % (USIZE_MAX + 1)]],
     next_id |-> L.next_id % (USIZE_MAX + 1)]

\* a call whose exact result is the list L: when every number of L is a usize
\* the call returns with L; when one is not, `+= 1` or `-= 1` has overflowed,
\* and the call panics in a build with overflow checks and wraps in a build
\* without them
Checked(L, op) ==
    /\ pc = "library"
    /\ existed' = existed \cup DOMAIN todos
    /\ UNCHANGED <<calls, view, store, target, io, failures, saved, ui>>
    /\ IF InRange(L)
       THEN /\ todos' = L.todos
            /\ next_id' = L.next_id
            /\ last' = ResultX("returned", 0, 0, TRUE, 0, TodoList_new, NoArg)
            /\ pc' = pc
       ELSE /\ last' = ResultX(op, 0, 0, TRUE, 0, TodoList_new, "overflow")
            /\ \/ pc' = "aborted" /\ UNCHANGED <<todos, next_id>>
               \/ /\ pc' = "wrapped"
                  /\ todos' = Wrapped(L).todos
                  /\ next_id' = Wrapped(L).next_id

InitWidth ==
    /\ \E L \in TopLists : todos = L.todos /\ next_id = L.next_id
    /\ last = Result("new", 0, 0, TRUE, 0, TodoList_new)
    /\ existed = {}
    /\ calls = <<>>
    /\ view = NoView
    /\ store = <<>>
    /\ target = "desktop"
    /\ pc = "library"
    /\ io = NoIo
    /\ failures = 0
    /\ saved = <<>>
    /\ ui = NoUi

WidthAdd == \E text \in Texts : Checked(add(Self, text), "add")

WidthRemove == \E id \in DOMAIN todos : Checked(remove(Self, id), "remove")

WidthToggle == \E id \in DOMAIN todos : Checked(toggle(Self, id), "toggle")

WidthClearCompleted == Checked(clear_completed(Self), "clear_completed")

WidthReorder ==
    \E source_id \in DOMAIN todos, target_id \in DOMAIN todos :
        Checked(reorder(Self, source_id, target_id), "reorder")

NextWidth ==
    WidthAdd \/ WidthRemove \/ WidthToggle \/ WidthClearCompleted \/ WidthReorder

SpecWidth == InitWidth /\ [][NextWidth]_vars

TypeOK ==
    /\ next_id \in 1..(MaxAdds + 1)
    /\ DOMAIN todos \subseteq 1..MaxAdds
    /\ \A i \in DOMAIN todos :
        /\ todos[i].id = i
        /\ todos[i].text \in Texts
        /\ todos[i].completed \in BOOLEAN

(* ---------------------------------------------------------------------- *)
(* Vocabulary of the properties                                            *)
(* ---------------------------------------------------------------------- *)

\* the list before the last call
Pre == last.pre

\* the last call was a reorder that returned true / false
ReorderSucceeded == last.op = "reorder" /\ last.ok
ReorderFailed == last.op = "reorder" /\ ~last.ok

\* the order values of a list
OrderSet(L) == { L.todos[i].order : i \in DOMAIN L.todos }

\* no two todos of L have the same order value
DistinctOrders(L) ==
    \A i, j \in DOMAIN L.todos : i # j => L.todos[i].order # L.todos[j].order

\* the order values of L are pairwise distinct and form a gap-free range
Dense(L) ==
    /\ DistinctOrders(L)
    /\ \A x, y \in OrderSet(L) : \A z \in x..y : z \in OrderSet(L)

\* position of x in seq, seq without x, seq with x inserted at position k
IndexOf(seq, x) == CHOOSE i \in 1..Len(seq) : seq[i] = x
Without(seq, x) == SelectSeq(seq, LAMBDA e : e # x)
InsertAt(seq, k, x) == SubSeq(seq, 1, k - 1) \o <<x>> \o SubSeq(seq, k, Len(seq))

(* ---------------------------------------------------------------------- *)
(* C1 .. C10                                                               *)
(* ---------------------------------------------------------------------- *)

\* C1: after any sequence of add, remove, toggle, clear_completed and reorder
\* calls from the empty list, successful or failed, no two todos of the
\* collection have the same order value.
C1_NoDuplicateOrders == DistinctOrders(Self)

\* C1 witness: a reorder succeeded on a collection from which a todo had been
\* removed, with another todo created since
C1_Witness ==
    /\ ReorderSucceeded
    /\ Cardinality(DOMAIN todos) >= 2
    /\ existed \ DOMAIN todos # {}
    /\ next_id = MaxAdds + 1

\* C2: a successful reorder(source_id, target_id) turns the id sequence of
\* all() into the one before the call with the source taken out and put back at
\* the index the target had before the call; the other todos keep their
\* relative order.  Gaps in the order values make no difference.
C2_ReorderIsSplice ==
    ReorderSucceeded =>
        \A before \in all_ids(Pre) : \A after \in all_ids(Self) :
            /\ after = InsertAt(Without(before, last.a), IndexOf(before, last.b), last.a)
            /\ Without(after, last.a) = Without(before, last.a)

\* C2 witness: a successful reorder of a collection whose order values had a gap
C2_Witness ==
    /\ ReorderSucceeded
    /\ ~Dense(Pre)
    /\ DistinctOrders(Pre)

\* C3: reorder returns false and leaves the whole collection unchanged when
\* source_id = target_id or one of the two ids is not in the collection.
C3_InvalidReorderNoOp ==
    (/\ last.op = "reorder"
     /\ \/ last.a = last.b
        \/ last.a \notin DOMAIN Pre.todos
        \/ last.b \notin DOMAIN Pre.todos)
    => (~last.ok /\ Self = Pre)

\* C3 witness: reorder of a known source onto an unknown target failed, in a
\* collection with other todos whose order a shift would have changed
C3_Witness ==
    /\ ReorderFailed
    /\ last.a \in DOMAIN todos
    /\ last.b \notin DOMAIN todos
    /\ \E i \in DOMAIN todos : todos[i].order < todos[last.a].order

\* C4: on a successful reorder with s the source's and t the target's order
\* before the call: if s < t every order in (s, t] is decreased by 1, if s > t
\* every order in [t, s) is increased by 1, the source's order becomes t, and
\* every other order is kept.
C4_ShiftedRange ==
    ReorderSucceeded =>
        LET s == Pre.todos[last.a].order
            t == Pre.todos[last.b].order
        IN  /\ DOMAIN todos = DOMAIN Pre.todos
            /\ \A i \in DOMAIN todos :
                LET o == Pre.todos[i].order
                IN  todos[i].order =
                        IF i = last.a THEN t
                        ELSE IF s < t /\ o > s /\ o <= t THEN o - 1
                        ELSE IF s > t /\ o >= t /\ o < s THEN o + 1
                        ELSE o

\* C4 witness: a successful reorder across a todo that lies between source and
\* target, with a todo outside the range
C4_Witness ==
    /\ ReorderSucceeded
    /\ \E i \in DOMAIN todos : todos[i].order # Pre.todos[i].order /\ i # last.a /\ i # last.b
    /\ Cardinality(DOMAIN todos) >= 3

\* C5: after a successful reorder(X, Y), X is immediately before Y in all() if
\* X was after Y before the call (moving up), and immediately after Y if X was
\* before Y (moving down).
C5_InsertBeforeOrAfter ==
    ReorderSucceeded =>
        \A before \in all_ids(Pre) : \A after \in all_ids(Self) :
            IF IndexOf(before, last.a) > IndexOf(before, last.b)
            THEN IndexOf(after, last.a) + 1 = IndexOf(after, last.b)
            ELSE IndexOf(after, last.a) = IndexOf(after, last.b) + 1

\* C5 witness: the last todo of three was moved up onto the first
C5_Witness ==
    /\ ReorderSucceeded
    /\ Cardinality(DOMAIN todos) = 3
    /\ \A i \in DOMAIN todos : Pre.todos[i].order <= Pre.todos[last.a].order
    /\ \A i \in DOMAIN todos : Pre.todos[i].order >= Pre.todos[last.b].order

\* C6: if the order values are pairwise distinct and contiguous before a
\* successful reorder, the set of order values after it is the same set, with
\* no duplicate: only the assignment of values to todos changes.
C6_DensePreserved ==
    (ReorderSucceeded /\ Dense(Pre)) =>
        /\ OrderSet(Self) = OrderSet(Pre)
        /\ DistinctOrders(Self)

\* C6 witness: a successful reorder of three todos with contiguous orders that
\* no longer equal the ids
C6_Witness ==
    /\ ReorderSucceeded
    /\ Dense(Pre)
    /\ Cardinality(DOMAIN Pre.todos) = 3
    /\ \E i \in DOMAIN Pre.todos : Pre.todos[i].order # i

\* C7: for A, B, C added in that order to an empty list, all() is [A, B, C];
\* reorder(A, C) succeeds and all() becomes [B, C, A]; a following
\* reorder(C, B) succeeds and all() becomes [C, B, A].
C7_TestReorder ==
    /\ calls = SubSeq(ScenarioReorder, 1, 3) => all_ids(Self) = { <<1, 2, 3>> }
    /\ calls = SubSeq(ScenarioReorder, 1, 4) =>
            last.ok /\ all_ids(Self) = { <<2, 3, 1>> }
    /\ calls = ScenarioReorder =>
            last.ok /\ all_ids(Self) = { <<3, 2, 1>> }

\* C7 witness: the scenario of tests::test_reorder has run to its end
C7_Witness == calls = ScenarioReorder /\ last.op = "reorder" /\ last.b = 2

\* C8: from the empty list, three adds return the ids 1, 2, 3 with orders
\* 1, 2, 3; reorder(1, 3) makes all() yield [2, 3, 1]; toggle(2) makes
\* completed_count() = 1; clear_completed() returns 1 and removes todo 2, and
\* all() then yields [3, 1].
C8_EndToEnd ==
    /\ \A k \in 1..3 : calls = SubSeq(ScenarioEndToEnd, 1, k) =>
            /\ last.n = k
            /\ DOMAIN todos = 1..k
            /\ \A i \in 1..k : todos[i].order = i
    /\ calls = SubSeq(ScenarioEndToEnd, 1, 4) => all_ids(Self) = { <<2, 3, 1>> }
    /\ calls = SubSeq(ScenarioEndToEnd, 1, 5) => completed_count(Self) = 1
    /\ calls = ScenarioEndToEnd =>
            /\ last.n = 1
            /\ 2 \notin DOMAIN todos
            /\ all_ids(Self) = { <<3, 1>> }

\* C8 witness: the end-to-end scenario has run to its end
C8_Witness == calls = ScenarioEndToEnd /\ last.op = "clear_completed"

\* C9: the id add returns is strictly greater than every id an earlier add
\* returned and differs from the id of every todo that exists or existed
\* before, removed or not; next_id never decreases.
C9_IdsNeverReused ==
    /\ last.op = "add" =>
            /\ last.n \in DOMAIN todos
            /\ last.n \notin existed
            /\ \A i \in existed : i < last.n
    /\ next_id >= Pre.next_id

\* C9 witness: add was called after a todo had been removed
C9_Witness ==
    /\ last.op = "add"
    /\ existed \ DOMAIN Pre.todos # {}
    /\ last.n = MaxAdds

\* C10: the todo created by add is the last element of all() right after the
\* add: its order equals its id and is strictly greater than every order value
\* present, whatever add, remove, toggle, clear_completed and reorder calls
\* came before.
C10_AddAppends ==
    last.op = "add" =>
        /\ todos[last.n].order = last.n
        /\ \A i \in DOMAIN Pre.todos : Pre.todos[i].order < todos[last.n].order
        /\ \A after \in all_ids(Self) : after[Len(after)] = last.n

\* C10 witness: add was called on a collection whose todos had been reordered
C10_Witness ==
    /\ last.op = "add"
    /\ Cardinality(DOMAIN Pre.todos) >= 2
    /\ \E i \in DOMAIN Pre.todos : Pre.todos[i].order > i

(* ---------------------------------------------------------------------- *)
(* C11 .. C20                                                              *)
(* ---------------------------------------------------------------------- *)

\* the todos of a list and the elements of a vector, as sets
TodoSet(L) == { L.todos[i] : i \in DOMAIN L.todos }
Elems(v) == { v[i] : i \in 1..Len(v) }

\* the todos of L that match a filter
Matching(L, filter) == { t \in TodoSet(L) : FilterState_matches(filter, t) }

\* v is in ascending order of the order field
Ascending(v) == \A i, j \in 1..Len(v) : i < j => v[i].order <= v[j].order

\* the last call was all() / filtered()
AllCalled == last.op = "all"
FilteredCalled == last.op = "filtered"

\* C11: all() returns every todo of the collection exactly once, in ascending
\* order of the order field, and leaves the collection as it was; a second
\* call without a mutation in between can only return the same sequence.
C11_AllSortedOnce ==
    /\ AllCalled =>
            /\ Self = Pre
            /\ Len(view.result) = Cardinality(DOMAIN todos)
            /\ Elems(view.result) = TodoSet(Self)
            /\ Ascending(view.result)
    /\ \A v, w \in all(Self) : v = w

\* C11 witness: all() returned three todos that a reorder had put in another
\* order than that of their ids
C11_Witness ==
    /\ AllCalled
    /\ Len(view.result) = 3
    /\ view.result[1].id > view.result[2].id

\* C12 as stated: filtered(f) returns the sequence all() returns, restricted to
\* the todos that match f, i.e. the matching todos in ascending order.
C12_FilteredInOrder ==
    FilteredCalled =>
        \E v \in all(Self) :
            view.result = SelectSeq(v, LAMBDA t : FilterState_matches(view.filter, t))

\* C12 amended: filtered(f) returns exactly the todos that match f, each once
\* and with the fields they have in the collection, and leaves the collection
\* as it was; the order of the returned vector is unspecified.
C12_FilteredSameTodos ==
    FilteredCalled =>
        /\ Self = Pre
        /\ Len(view.result) = Cardinality(Matching(Self, view.filter))
        /\ Elems(view.result) = Matching(Self, view.filter)
        /\ \A v \in all(Self) :
                Elems(view.result) =
                    Elems(SelectSeq(v, LAMBDA t : FilterState_matches(view.filter, t)))

\* C12 witness: filtered(Active) returned two active todos, the later one
\* first, while a completed todo was left out
C12_Witness ==
    /\ FilteredCalled
    /\ view.filter = "Active"
    /\ Len(view.result) = 2
    /\ view.result[1].order > view.result[2].order
    /\ completed_count(Self) = 1

\* C13: the todos of filtered(Active) and of filtered(Completed) are disjoint,
\* their union is the set of todos of all(), and filtered(All) contains every
\* todo.
C13_FilterPartition ==
    \A a \in filtered(Self, "Active") : \A c \in filtered(Self, "Completed") :
        /\ Elems(a) \cap Elems(c) = {}
        /\ \A v \in all(Self) : Elems(a) \cup Elems(c) = Elems(v)
        /\ \A f \in filtered(Self, "All") : Elems(f) = TodoSet(Self)

\* C13 witness: filtered(Completed) was called on a collection with active and
\* completed todos
C13_Witness ==
    /\ FilteredCalled
    /\ view.filter = "Completed"
    /\ Len(view.result) >= 1
    /\ Len(view.result) < Cardinality(DOMAIN todos)

\* C15: toggle(id) of an existing id returns true and flips the completed flag
\* of that todo, and a second toggle(id) gives back exactly the list before the
\* first one.
C15_ToggleInvolution ==
    /\ (last.op = "toggle" /\ last.a \in DOMAIN Pre.todos) =>
            /\ last.ok
            /\ todos[last.a].completed = ~Pre.todos[last.a].completed
            /\ toggle(Self, last.a) = Pre
    /\ calls = ScenarioToggleTwice =>
            /\ last.ok
            /\ \E text \in Texts : Self = add(TodoList_new, text)

\* C15 witness: the same todo has been toggled twice in a row
C15_Witness == calls = ScenarioToggleTwice /\ last.op = "toggle" /\ ~todos[1].completed

\* C16: clear_completed() returns the number of todos that were completed
\* before the call; afterwards completed_count() is 0, the collection holds
\* exactly the todos that were not completed, with every field as before, and
\* next_id is unchanged.
C16_ClearCompleted ==
    last.op = "clear_completed" =>
        /\ last.n = Cardinality({ i \in DOMAIN Pre.todos : Pre.todos[i].completed })
        /\ completed_count(Self) = 0
        /\ DOMAIN todos = { i \in DOMAIN Pre.todos : ~Pre.todos[i].completed }
        /\ \A i \in DOMAIN todos : todos[i] = Pre.todos[i]
        /\ next_id = Pre.next_id

\* C16 witness: clear_completed removed a completed todo and kept an active
\* one that had been reordered
C16_Witness ==
    /\ last.op = "clear_completed"
    /\ last.n >= 1
    /\ \E i \in DOMAIN todos : todos[i].order # i

\* C14: for an id that is not in the collection, toggle, update_text,
\* set_due_date, add_tag and remove_tag return false and remove returns None,
\* and the collection (todos and next_id) is unchanged; a remove repeated on
\* an id already removed is such a no-op.
C14_NotFoundNoOp ==
    (/\ last.op \in {"toggle", "update_text", "set_due_date", "add_tag",
                     "remove_tag", "remove"}
     /\ last.a \notin DOMAIN Pre.todos)
    => (~last.ok /\ Self = Pre)

\* C14 witness: remove was called on an id that had already been removed
C14_Witness ==
    /\ last.op = "remove"
    /\ ~last.ok
    /\ last.a \in existed
    /\ last.a \notin DOMAIN Pre.todos

\* no vector element occurs twice
NoRepeat(v) == \A i, j \in 1..Len(v) : i # j => v[i] # v[j]

\* C17: after any sequence of add_tag and remove_tag calls on todos created by
\* add, no tag list holds the same string twice; add_tag(id, x) with x already
\* present returns true and leaves the tag list unchanged, so a second
\* add_tag(id, x) changes nothing.
C17_TagsNoDuplicates ==
    /\ \A i \in DOMAIN todos : NoRepeat(todos[i].tags)
    /\ (last.op = "add_tag" /\ last.a \in DOMAIN Pre.todos) =>
            /\ last.ok
            /\ Contains(Pre.todos[last.a].tags, last.x) => Self = Pre
            /\ add_tag(Self, last.a, last.x) = Self

\* C17 witness: add_tag was called with a tag the todo already had, next to
\* another tag
C17_Witness ==
    /\ last.op = "add_tag"
    /\ last.ok
    /\ Contains(Pre.todos[last.a].tags, last.x)
    /\ Len(todos[last.a].tags) = 2

\* the application has just mounted and its load effect returned res
Loaded(res) == pc = "running" /\ io.load = res

\* C18: a load of the key that returns Ok returns the list the last
\* successful save under that key before it was given: the same todos with the same
\* id, text, completed, due_date, tags and order, and the same next_id; an
\* add on the loaded list gives an id no todo of the saved list ever had
C18_SaveLoadRoundTrip ==
    Loaded("Ok") =>
        /\ io.before # <<>>
        /\ io.loaded = io.before[1].list
        /\ add_ret(io.loaded, "a") \notin io.before[1].ids
        /\ add_ret(io.loaded, "a") \in DOMAIN add(io.loaded, "a").todos

C18_Witness ==
    /\ Loaded("Ok")
    /\ \E id \in DOMAIN io.loaded.todos :
        /\ io.loaded.todos[id].completed
        /\ io.loaded.todos[id].tags # <<>>
        /\ io.loaded.todos[id].due_date # None

\* the load effect has just loaded a key under which nothing is stored
LoadedMissing == pc = "running" /\ io.load # "none" /\ ~io.present

\* C19 as stated: a load of a key under which nothing was ever saved returns
\* NotFound
C19_MissingKeyNotFound == LoadedMissing => io.load = "NotFound"

\* C19: a load of a key under which nothing was ever saved returns NotFound
\* when the storage backend answers; when it does not, the load returns
\* AccessError in the browser and DbError on the native builds; it never
\* returns a value or DeserializeError
C19_MissingKey ==
    LoadedMissing =>
        io.load = IF io.env = "ok" THEN "NotFound"
                  ELSE IF target = "wasm32" THEN "AccessError" ELSE "DbError"

C19_Witness == LoadedMissing /\ io.load = "NotFound"

LoadFailed == io.load \in {"NotFound", "DeserializeError", "AccessError", "DbError"}

\* C21: when the load of TODO_STORAGE_KEY at the start returns an error of any
\* kind, the application runs on: the list in memory is the empty list with
\* next_id = 1, and the callbacks can be invoked
C21_LoadErrorKeepsDefault ==
    LoadFailed =>
        /\ pc = "running"
        /\ Self = TodoList_new
        /\ ENABLED add_todo
        /\ ENABLED clear_completed_cb

C21_Witness == LoadFailed /\ io.load = "DeserializeError" /\ pc = "running"

\* str is trimmed and not empty
TrimmedNonEmpty(str) ==
    /\ str # <<>>
    /\ Head(str) \notin WhiteSpace
    /\ str[Len(str)] \notin WhiteSpace

\* C22: the forms call add_todo and update_todo only with a text that is
\* trimmed and not empty, an edit to the text the todo has calls nothing, and
\* every todo's text is not empty
C22_TextNonEmpty ==
    /\ last.op \in {"add", "update_text"} => TrimmedNonEmpty(last.x)
    /\ last.op = "update_text" => last.x # Pre.todos[last.a].text
    /\ \A id \in DOMAIN todos : TrimmedNonEmpty(todos[id].text)

C22_Witness ==
    /\ last.op = "update_text"
    /\ Pre.todos[last.a].text = <<"a">>
    /\ todos[last.a].text = <<"b">>

\* TodoApp has rendered
Displayed == ui.component = "app"

\* the selected tag is none or one of the tags of t
TagSelected(t) ==
    ui.selected_tag = None \/ \E i \in 1..Len(t.tags) : t.tags[i] = ui.selected_tag[1]

\* pat occurs in str at some offset
OccursIn(pat, str) ==
    \E off \in 0..Len(str) :
        /\ off + Len(pat) <= Len(str)
        /\ \A k \in 1..Len(pat) : str[off + k] = pat[k]

\* the search text q is empty, or its lower-cased form occurs in the
\* lower-cased text of t or in the lower-cased form of one of its tags
Searched(q, t) ==
    \/ q = <<>>
    \/ OccursIn(to_lowercase(q), to_lowercase(t.text))
    \/ \E i \in 1..Len(t.tags) : OccursIn(to_lowercase(q), to_lowercase(t.tags[i]))

\* the todos that satisfy the three predicates at once
Shown == { t \in TodoSet(Self) :
             FilterState_matches(ui.filter, t) /\ TagSelected(t) /\ Searched(ui.search_text, t) }

\* C23: the displayed list holds exactly the todos for which the status
\* filter matches and the selected tag is none or among the tags and the
\* search matches, each once, in the order of all(); an event that only
\* changes what is displayed leaves the collection as it was
C23_DisplayedList ==
    Displayed =>
        /\ Elems(view.result) = Shown
        /\ Len(view.result) = Cardinality(Shown)
        /\ Ascending(view.result)
        /\ last.op = "render" => Pre = Self

C23_Witness ==
    /\ Displayed
    /\ ui.filter = "Active" /\ ui.selected_tag # None /\ ui.search_text # <<>>
    /\ Len(view.result) = 1
    /\ Cardinality(DOMAIN todos) = 2
    /\ last.op = "render"

\* C24: with no other predicate in the way, the displayed list holds every
\* todo when the search text is empty, and otherwise exactly the todos in
\* whose lower-cased text or lower-cased tag the lower-cased search text occurs
C24_SearchPredicate ==
    Displayed /\ ui.filter = "All" /\ ui.selected_tag = None =>
        /\ ui.search_text = <<>> => Elems(view.result) = TodoSet(Self)
        /\ \A t \in TodoSet(Self) :
               t \in Elems(view.result) <=> Searched(ui.search_text, t)

C24_Witness ==
    /\ Displayed /\ ui.filter = "All" /\ ui.selected_tag = None
    /\ ui.search_text = <<"a", "B">>
    /\ Len(view.result) = 1
    /\ Cardinality(DOMAIN todos) = 2

\* the last event was a key-down of the key code, with Ctrl held
CtrlKey(code) == ui.key.code = code /\ ui.key.ctrl

\* C27: a key-down of A with Ctrl held sets the filter to All, of C to
\* Completed, of V to Active, and of D toggles dark mode; any other key-down
\* changes neither the filter nor the theme; no key-down changes the list
C27_Shortcuts ==
    last.op = "key_down" =>
        /\ Pre = Self
        /\ ui.filter = CASE CtrlKey("KeyA") -> "All"
                         [] CtrlKey("KeyC") -> "Completed"
                         [] CtrlKey("KeyV") -> "Active"
                         [] OTHER -> ui.before.filter
        /\ ui.is_dark_mode = IF CtrlKey("KeyD") THEN ~ui.before.is_dark_mode
                             ELSE ui.before.is_dark_mode

\* C25: no call aborts, and the arithmetic of add and reorder never leaves
\* the range of usize
C25_NoOverflow == pc \notin {"aborted", "wrapped"} /\ last.x # "overflow"

\* the operations that write one field of one todo
FieldOps == {"toggle", "update_text", "set_due_date", "add_tag", "remove_tag"}

\* the last call was one of them, on an id the list had
FieldCall == last.op \in FieldOps /\ last.a \in DOMAIN Pre.todos

\* t is s except, at most, in the field the operation op writes
SameBut(op, s, t) ==
    /\ t.id = s.id
    /\ t.order = s.order
    /\ op # "update_text" => t.text = s.text
    /\ op # "toggle" => t.completed = s.completed
    /\ op # "set_due_date" => t.due_date = s.due_date
    /\ op \notin {"add_tag", "remove_tag"} => t.tags = s.tags

C28_OrderAndIdBelowNextId ==
    \A i \in DOMAIN todos :
        /\ todos[i].order >= 1
        /\ todos[i].order < next_id
        /\ todos[i].id >= 1
        /\ todos[i].id < next_id

C28_Witness ==
    /\ ReorderSucceeded
    /\ next_id = 4
    /\ Cardinality(DOMAIN todos) = 2
    /\ \E i \in DOMAIN todos : todos[i].order # todos[i].id

\* the startup effects have run, and before them the storage held, under
\* TODO_STORAGE_KEY, the snapshot of the list the last successful save was given
StartedOverSnapshot == pc = "running" /\ io.load # "none" /\ io.before # <<>>

\* C29: when the storage holds a valid snapshot S under TODO_STORAGE_KEY at
\* the start, then once the startup effects have run the stored snapshot has
\* not been replaced by the empty default: the list in memory and the stored
\* snapshot both equal S
C29_SnapshotInstalledFirst ==
    StartedOverSnapshot =>
        /\ store[TODO_STORAGE_KEY] = to_string(io.before[1].list)
        /\ Self = io.before[1].list

\* the last event was a dragend
DragEnded == last.op = "dragend"

\* C30: a dragend invokes the reorder callback only when a dragstart and a
\* dragenter were delivered since the last dragend and their ids differ, and
\* then with exactly (source, target), the list becoming the reordered one;
\* without the call the list is unchanged; after every dragend drag_item and
\* drag_over_item are None; the callback is never invoked with source equal to
\* target
C30_DragProtocol ==
    DragEnded =>
        /\ last.ok =>
              /\ ui.before.dragstart # None
              /\ ui.before.dragenter # None
              /\ last.a = ui.before.dragstart[1]
              /\ last.b = ui.before.dragenter[1]
              /\ last.a # last.b
              /\ Self = reorder(last.pre, last.a, last.b)
        /\ ~last.ok => Self = last.pre
        /\ ui.drag_item = None
        /\ ui.drag_over_item = None

C30_Witness ==
    /\ DragEnded
    /\ last.ok
    /\ Self # last.pre
    /\ ui.before.dragstart = Some(last.a)
    /\ ui.before.dragenter = Some(last.b)

====
